---- MODULE Spec2Model ----
(***************************************************************************)
(* State-machine model of src/app.py (S3 upload and delete application):   *)
(* the main window's three trigger buttons and progress widgets, the       *)
(* delete dialog's page cache, the worker threads started by the handlers  *)
(* and the remote bucket they act on.                                      *)
(*                                                                         *)
(* Object keys, prefixes and file names are sequences of one-character     *)
(* strings.  The control (Tk) thread runs one handler per action; a worker *)
(* thread runs one network call, with the local code that follows it up to *)
(* the next network call, per action.                                      *)
(***************************************************************************)
EXTENDS Naturals, Sequences, FiniteSets

\* ------------------------------------------------------------------ bounds
\* Number of distinct file / object names of the model.
MaxNames == 3
\* Number of worker threads started in one behaviour.
MaxOps == 2
\* Cap on the network calls one worker logs (keeps a non-terminating loop finite).
MaxCalls == 8
\* AppConstants.MAX_KEYS_PER_PAGE is 25 and AppConstants.DELETE_BATCH_SIZE is 100
\* in the source; the model scales both down so that several pages and several
\* batches occur with MaxNames keys.
MAX_KEYS_PER_PAGE == 2
DELETE_BATCH_SIZE == 2
\* Number of passes of the sweep loop over which its progress bar is followed.
MaxPasses == 100
\* Longest text typed into the prefix entry where the key computation is followed.
MaxPrefixLen == 3
\* Largest number of entries (files, directories, links) of a scanned directory.
MaxEntries == 3

\* ------------------------------------------------------- program constants
SWEEP_PROGRESS_MAX == 1000
SWEEP_PROGRESS_STEP == 10
SWEEP_PROGRESS_CAP == 990

\* ------------------------------------------------------------------ strings
Alphabet == <<"a", "b", "c", "d", "e">>
Names == {<<Alphabet[i]>> : i \in 1..MaxNames}
\* Values typed into the prefix entry.
Prefixes == {<<"p">>}
\* A key of the bucket that lies outside every prefix of Prefixes.
OutsideKey == <<"o">>

\* Code-point order of the characters used (" " < "/" < "a" < ... < "o" < "p").
Rank(c) ==
    CASE c = " " -> 0
      [] c = "/" -> 1
      [] c = "a" -> 2
      [] c = "b" -> 3
      [] c = "c" -> 4
      [] c = "d" -> 5
      [] c = "e" -> 6
      [] c = "o" -> 7
      [] OTHER   -> 8

RECURSIVE KeyLess(_, _)
\* Lexicographic order of two keys, the order list_objects_v2 returns keys in.
KeyLess(a, b) ==
    IF Len(b) = 0 THEN FALSE
    ELSE IF Len(a) = 0 THEN TRUE
    ELSE IF a[1] # b[1] THEN Rank(a[1]) < Rank(b[1])
    ELSE KeyLess(Tail(a), Tail(b))

StartsWith(s, p) == Len(p) <= Len(s) /\ SubSeq(s, 1, Len(p)) = p

endswith(s, c) == Len(s) > 0 /\ s[Len(s)] = c

RECURSIVE lstrip(_)
lstrip(s) == IF Len(s) > 0 /\ s[1] = " " THEN lstrip(Tail(s)) ELSE s

RECURSIVE rstrip(_)
rstrip(s) ==
    IF Len(s) > 0 /\ s[Len(s)] = " " THEN rstrip(SubSeq(s, 1, Len(s) - 1)) ELSE s

\* str.strip()
strip(s) == rstrip(lstrip(s))

Min(a, b) == IF a < b THEN a ELSE b

RECURSIVE SortKeys(_)
\* The keys of a set as a sequence in ascending KeyLess order.
SortKeys(S) ==
    IF S = {} THEN <<>>
    ELSE LET m == CHOOSE k \in S : \A o \in S \ {k} : KeyLess(k, o)
         IN  <<m>> \o SortKeys(S \ {m})

Range(s) == {s[i] : i \in 1..Len(s)}

\* Absent continuation token (None) and a present one.
NoToken == <<>>
Token(k) == <<k>>

\* ------------------------------------------------------------------- state
VARIABLES
    prefix_var,          \* text of the prefix entry
    buttons,             \* state of upload_btn, upload_dir_btn, delete_btn
    progress,            \* main window progress bar: [value, maximum]
    progress_label,      \* main window progress label text
    bucket,              \* keys stored in the remote bucket
    dialog_open,         \* a delete dialog is shown
    all_pages,           \* delete dialog: fetched pages of <<key, checked>>
    current_page,        \* delete dialog: displayed page index (0-based)
    continuation_token,  \* delete dialog: token of the next unfetched page
    checkbox_vars,       \* delete dialog: BooleanVar values of the shown page
    workers,             \* worker threads started so far, in start order
    lastCall             \* the last step: the dialog handler that ran and the network
                         \* call made on the control thread

vars == <<prefix_var, buttons, progress, progress_label, bucket, dialog_open,
          all_pages, current_page, continuation_token, checkbox_vars, workers,
          lastCall>>

dialogVars == <<dialog_open, all_pages, current_page, continuation_token,
                checkbox_vars>>
mainVars == <<buttons, progress, progress_label>>

\* Text of a label widget: a message with the numbers formatted into it.
Label(text, n, total) == [text |-> text, n |-> n, total |-> total]
NoLabel == Label("", 0, 0)

\* ------------------------------------------------------------ remote store
\* S3Manager.list_objects on a call that returns: the responses the remote
\* store can give.  The objects are the first max_keys keys under the prefix
\* after the token, in key order.  A token for the rest comes with a truncated
\* page; the store may also hand out a token with its last keys, and the
\* listing after that token is then empty.
list_objects(store, prefix, max_keys, token) ==
    LET matching == {k \in store : /\ StartsWith(k, prefix)
                                   /\ (token = NoToken \/ KeyLess(token[1], k))}
        sorted   == SortKeys(matching)
        objects  == SubSeq(sorted, 1, Min(max_keys, Len(sorted)))
        tokens   == IF Len(sorted) > max_keys THEN {Token(objects[Len(objects)])}
                    ELSE IF Len(objects) > 0
                         THEN {NoToken, Token(objects[Len(objects)])}
                    ELSE {NoToken}
    IN  {[objects |-> objects, next_token |-> t] : t \in tokens}

\* What a step leaves in lastCall: `by` names the handler when the step is one
\* of _handle_delete, load_next_page and load_previous_page ("none" for every
\* other step), `op` the network call that handler made on the control thread
\* and `message` the message box it showed.
NoCall ==
    [by |-> "none", op |-> "none", token |-> NoToken, raised |-> FALSE,
     message |-> "none"]
Call(by, op, token, raised, message) ==
    [by |-> by, op |-> op, token |-> token, raised |-> raised, message |-> message]

\* ------------------------------------------------------------ key building
\* _get_s3_key that appends the separator without looking at the prefix's end.
_get_s3_key_always_slash(prefix_text, filename) ==
    LET prefix == strip(prefix_text)
    IN  IF Len(prefix) > 0 THEN prefix \o <<"/">> \o filename ELSE filename

\* S3UploadAndDeleteApp._get_s3_key
_get_s3_key(prefix_text, filename) ==
    LET prefix == strip(prefix_text)
    IN  IF Len(prefix) > 0
        THEN (IF ~endswith(prefix, "/") THEN prefix \o <<"/">> ELSE prefix) \o filename
        ELSE filename

\* S3UploadAndDeleteApp._get_s3_key_for_directory
_get_s3_key_for_directory(prefix_text, relative_path) ==
    LET prefix == strip(prefix_text)
    IN  IF Len(prefix) > 0
        THEN (IF ~endswith(prefix, "/") THEN prefix \o <<"/">> ELSE prefix)
             \o relative_path
        ELSE relative_path

\* ----------------------------------------------------------- delete dialog
\* pages = [[obj, False] for obj in objects]
NewPage(objects) == [i \in 1..Len(objects) |-> <<objects[i], FALSE>>]
KeysOfPage(page) == [i \in 1..Len(page) |-> page[i][1]]

\* update_checkboxes with a rendering that rebuilds the entries of the page it
\* shows, unchecked.
update_checkboxes_rebuild(pages, cur) ==
    [all_pages     |-> [pages EXCEPT ![cur + 1] = NewPage(KeysOfPage(pages[cur + 1]))],
     checkbox_vars |-> [i \in 1..Len(pages[cur + 1]) |-> FALSE]]

\* update_checkboxes: one BooleanVar per entry of the displayed page, created
\* with the stored flag as its value before the write trace is attached, so that
\* rendering writes nothing back into the pages.
update_checkboxes(pages, cur) ==
    [all_pages     |-> pages,
     checkbox_vars |-> [i \in 1..Len(pages[cur + 1]) |-> pages[cur + 1][i][2]]]

\* update_check_state that writes into the first page, whichever is displayed.
update_check_state_first_page(pages, cur, index, checked) ==
    [pages EXCEPT ![1][index] = <<@[1], checked>>]

\* update_check_state(index, checked): all_pages[current_page[0]][index][1] = checked
update_check_state(pages, cur, index, checked) ==
    [pages EXCEPT ![cur + 1][index] = <<@[1], checked>>]

RECURSIVE Flatten(_)
Flatten(ss) == IF Len(ss) = 0 THEN <<>> ELSE Head(ss) \o Flatten(Tail(ss))

\* [obj_key for obj_key, checked in page if checked]
CheckedOf(page) == SelectSeq(page, LAMBDA e : e[2])
KeysOf(entries) == KeysOfPage(entries)

\* delete_selected reading the first page alone.
selected_keys_one_page(pages) == KeysOf(CheckedOf(pages[1]))

\* delete_selected: the keys checked on any fetched page, in page order.
selected_keys(pages) == Flatten([p \in 1..Len(pages) |-> KeysOf(CheckedOf(pages[p]))])

\* The main window as _show_main_screen leaves it, no dialog and no thread.
MainScreen ==
    /\ buttons = [upload_btn |-> "normal", upload_dir_btn |-> "normal",
                  delete_btn |-> "normal"]
    /\ progress = [value |-> 0, maximum |-> 0]
    /\ progress_label = NoLabel
    /\ dialog_open = FALSE
    /\ all_pages = <<>>
    /\ current_page = 0
    /\ continuation_token = NoToken
    /\ checkbox_vars = <<>>
    /\ workers = <<>>
    /\ lastCall = NoCall

Init ==
    /\ prefix_var \in Prefixes
    /\ bucket = {_get_s3_key(prefix_var, n) : n \in Names} \cup {OutsideKey}
    /\ MainScreen

\* _handle_delete: the initial listing runs in the handler; an empty listing
\* and a failed listing open no dialog.
_handle_delete ==
    /\ buttons.delete_btn = "normal"
    /\ ~dialog_open
    /\ \/ /\ lastCall' = Call("_handle_delete", "list", NoToken, TRUE, "showerror")
          /\ UNCHANGED dialogVars
       \/ \E r \in list_objects(bucket, strip(prefix_var), MAX_KEYS_PER_PAGE, NoToken) :
              /\ lastCall' = Call("_handle_delete", "list", NoToken, FALSE,
                                  IF Len(r.objects) = 0 THEN "showinfo" ELSE "none")
              /\ IF Len(r.objects) = 0
                 THEN UNCHANGED dialogVars
                 ELSE LET shown == update_checkboxes(<<NewPage(r.objects)>>, 0)
                      IN  /\ dialog_open' = TRUE
                          /\ all_pages' = shown.all_pages
                          /\ current_page' = 0
                          /\ continuation_token' = r.next_token
                          /\ checkbox_vars' = shown.checkbox_vars
    /\ UNCHANGED <<prefix_var, mainVars, bucket, workers>>

\* A click on the checkbox at `index` of the displayed page: the BooleanVar is
\* written and its trace calls update_check_state(index, var.get()).
ToggleCheckbox(index) ==
    /\ dialog_open
    /\ index \in 1..Len(checkbox_vars)
    /\ checkbox_vars' = [checkbox_vars EXCEPT ![index] = ~@]
    /\ all_pages' = update_check_state(all_pages, current_page, index,
                                       checkbox_vars'[index])
    /\ UNCHANGED <<prefix_var, mainVars, bucket, dialog_open, current_page,
                   continuation_token, workers>>
    /\ lastCall' = NoCall

\* load_next_page with the token cleared before the call: a call that raises
\* leaves no token behind.
next_page_failed_drops_token(pages, cur, token) ==
    [all_pages |-> pages, current_page |-> cur, continuation_token |-> NoToken]

\* load_next_page when list_objects raises: the except clause shows the error;
\* no statement of the try block after the call has run.
next_page_failed(pages, cur, token) ==
    [all_pages |-> pages, current_page |-> cur, continuation_token |-> token]

\* load_next_page that asks for the stored token first: with a token stored it
\* fetches whether or not a later page is already there.
load_next_page_token_first ==
    /\ dialog_open
    /\ IF continuation_token # NoToken
       THEN \E r \in list_objects(bucket, strip(prefix_var), MAX_KEYS_PER_PAGE,
                                  continuation_token) :
                LET shown == update_checkboxes(Append(all_pages, NewPage(r.objects)),
                                               current_page + 1)
                IN  /\ all_pages' = shown.all_pages
                    /\ continuation_token' = r.next_token
                    /\ current_page' = current_page + 1
                    /\ checkbox_vars' = shown.checkbox_vars
                    /\ lastCall' = Call("load_next_page", "list", continuation_token,
                                        FALSE, "none")
       ELSE /\ current_page + 1 < Len(all_pages)
            /\ current_page' = current_page + 1
            /\ all_pages' = update_checkboxes(all_pages, current_page').all_pages
            /\ checkbox_vars' = update_checkboxes(all_pages, current_page').checkbox_vars
            /\ UNCHANGED <<continuation_token>>
            /\ lastCall' = Call("load_next_page", "none", NoToken, FALSE, "none")
    /\ UNCHANGED <<prefix_var, mainVars, bucket, dialog_open, workers>>

\* load_next_page that counts up on the last page when no token is stored.
load_next_page_past_end ==
    /\ dialog_open
    /\ \/ /\ current_page + 1 < Len(all_pages)
          /\ current_page' = current_page + 1
          /\ all_pages' = update_checkboxes(all_pages, current_page').all_pages
          /\ checkbox_vars' = update_checkboxes(all_pages, current_page').checkbox_vars
          /\ UNCHANGED <<continuation_token>>
          /\ lastCall' = Call("load_next_page", "none", NoToken, FALSE, "none")
       \/ /\ ~(current_page + 1 < Len(all_pages))
          /\ continuation_token # NoToken
          /\ \/ \E r \in list_objects(bucket, strip(prefix_var), MAX_KEYS_PER_PAGE,
                                        continuation_token) :
                  LET shown == update_checkboxes(Append(all_pages, NewPage(r.objects)),
                                                 current_page + 1)
                  IN  /\ all_pages' = shown.all_pages
                      /\ continuation_token' = r.next_token
                      /\ current_page' = current_page + 1
                      /\ checkbox_vars' = shown.checkbox_vars
                      /\ lastCall' = Call("load_next_page", "list", continuation_token,
                                          FALSE, "none")
             \/ LET kept == next_page_failed(all_pages, current_page, continuation_token)
                IN  /\ lastCall' = Call("load_next_page", "list", continuation_token,
                                        TRUE, "showerror")
                    /\ all_pages' = kept.all_pages
                    /\ current_page' = kept.current_page
                    /\ continuation_token' = kept.continuation_token
                    /\ UNCHANGED checkbox_vars
       \/ /\ ~(current_page + 1 < Len(all_pages))
          /\ continuation_token = NoToken
          /\ lastCall' = Call("load_next_page", "none", NoToken, FALSE, "none")
          /\ current_page' = current_page + 1
          /\ UNCHANGED <<all_pages, continuation_token, checkbox_vars>>
    /\ UNCHANGED <<prefix_var, mainVars, bucket, dialog_open, workers>>

load_next_page ==
    /\ dialog_open
    /\ \/ /\ current_page + 1 < Len(all_pages)
          /\ current_page' = current_page + 1
          /\ all_pages' = update_checkboxes(all_pages, current_page').all_pages
          /\ checkbox_vars' = update_checkboxes(all_pages, current_page').checkbox_vars
          /\ UNCHANGED <<continuation_token>>
          /\ lastCall' = Call("load_next_page", "none", NoToken, FALSE, "none")
       \/ /\ ~(current_page + 1 < Len(all_pages))
          /\ continuation_token # NoToken
          /\ \/ \E r \in list_objects(bucket, strip(prefix_var), MAX_KEYS_PER_PAGE,
                                        continuation_token) :
                  LET shown == update_checkboxes(Append(all_pages, NewPage(r.objects)),
                                                 current_page + 1)
                  IN  /\ all_pages' = shown.all_pages
                      /\ continuation_token' = r.next_token
                      /\ current_page' = current_page + 1
                      /\ checkbox_vars' = shown.checkbox_vars
                      /\ lastCall' = Call("load_next_page", "list", continuation_token,
                                          FALSE, "none")
             \/ LET kept == next_page_failed(all_pages, current_page, continuation_token)
                IN  /\ lastCall' = Call("load_next_page", "list", continuation_token,
                                        TRUE, "showerror")
                    /\ all_pages' = kept.all_pages
                    /\ current_page' = kept.current_page
                    /\ continuation_token' = kept.continuation_token
                    /\ UNCHANGED checkbox_vars
       \/ /\ ~(current_page + 1 < Len(all_pages))
          /\ continuation_token = NoToken
          /\ lastCall' = Call("load_next_page", "none", NoToken, FALSE, "none")
          /\ UNCHANGED <<all_pages, continuation_token, current_page, checkbox_vars>>
    /\ UNCHANGED <<prefix_var, mainVars, bucket, dialog_open, workers>>

\* load_previous_page that goes from page 0 round to the last fetched page.
load_previous_page_wraps ==
    /\ dialog_open
    /\ current_page' = IF current_page > 0 THEN current_page - 1 ELSE Len(all_pages) - 1
    /\ all_pages' = update_checkboxes(all_pages, current_page').all_pages
    /\ checkbox_vars' = update_checkboxes(all_pages, current_page').checkbox_vars
    /\ lastCall' = Call("load_previous_page", "none", NoToken, FALSE, "none")
    /\ UNCHANGED <<prefix_var, mainVars, bucket, dialog_open, continuation_token,
                   workers>>

load_previous_page ==
    /\ dialog_open
    /\ IF current_page > 0
       THEN /\ current_page' = current_page - 1
            /\ all_pages' = update_checkboxes(all_pages, current_page').all_pages
            /\ checkbox_vars' = update_checkboxes(all_pages, current_page').checkbox_vars
       ELSE UNCHANGED <<current_page, all_pages, checkbox_vars>>
    /\ lastCall' = Call("load_previous_page", "none", NoToken, FALSE, "none")
    /\ UNCHANGED <<prefix_var, mainVars, bucket, dialog_open, continuation_token,
                   workers>>

\* ----------------------------------------------------------------- workers
NoError == [text |-> "", key |-> <<>>]
\* Exception(f"アップロード失敗 ({s3_key}): ...") shown by messagebox.showerror
UploadError(s3_key) == [text |-> "upload_failed", key |-> s3_key]
\* Exception(f"削除失敗: ...")
DeleteError == [text |-> "delete_failed", key |-> <<>>]
\* Exception(f"オブジェクトリストの取得に失敗: ...")
ListError == [text |-> "list_failed", key |-> <<>>]
\* An exception that is not a ClientError passes the except clauses of S3Manager
\* as it is: its text is the library's and carries no key of this program.
OtherError == [text |-> "other", key |-> <<>>]
\* The exceptions a call of S3Manager can raise.
UploadErrors(s3_key) == {UploadError(s3_key), OtherError}
DeleteErrors == {DeleteError, OtherError}
ListErrors == {ListError, OtherError}

\* One entry of a worker's log of network calls: the keys submitted (upload,
\* delete) or returned (list), the token passed (list), whether the call raised
\* and the keys the response reported as per-key errors (delete).
CallRec(op, keys, token, raised, failed) ==
    [op |-> op, keys |-> keys, token |-> token, raised |-> raised, failed |-> failed]

\* ---- Directories on disk and _scan_directory ----

\* os.sep of the platform the program runs on: POSIX and Windows.
Seps == {"/", "\\"}

\* Names of directory entries; a POSIX file name may hold a backslash.
EntryNames == {<<"b">>, <<"c">>, <<"c", "\\", "b">>}

\* An entry below the chosen directory: its path as the list of names from the
\* chosen directory down, and what os.scandir reports for it. A "link" is a
\* symbolic link to a directory.
EntryPaths == UNION {[1..n -> EntryNames] : n \in 1..2}
Entries == [path : EntryPaths, kind : {"file", "dir", "link"}]

Parent(path) == SubSeq(path, 1, Len(path) - 1)
HasChar(name, c) == \E i \in 1..Len(name) : name[i] = c

\* The entries of a directory tree: one entry per path, every entry inside a
\* directory of the tree.
IsTree(E) ==
    /\ \A e1, e2 \in E : e1.path = e2.path => e1 = e2
    /\ \A e \in E : Len(e.path) > 1 =>
            [path |-> Parent(e.path), kind |-> "dir"] \in E
Trees ==
    {E \in {{s[i] : i \in 1..Len(s)} :
                s \in UNION {[1..n -> Entries] : n \in 0..MaxEntries}} : IsTree(E)}

\* The orders in which os.scandir can report the entries of a directory.
EntryOrders ==
    {o \in [EntryNames -> 1..Cardinality(EntryNames)] :
        \A a, b \in EntryNames : o[a] = o[b] => a = b}

\* directory_path as filedialog.askdirectory returns it, without the separators.
DirectoryName == <<"r">>

\* A directory chosen for upload: its tree, the platform's separator and the
\* order of os.scandir. No name of a tree contains the platform's separator.
Directories ==
    {d \in [tree : Trees, sep : Seps, order : EntryOrders] :
        \A e \in d.tree : \A i \in 1..Len(e.path) : ~HasChar(e.path[i], d.sep)}
NoDirectory == [tree |-> {}, sep |-> "none", order |-> <<>>]

\* os.path.join(a, b) for a relative b.
join(a, b, sep) == a \o <<sep>> \o b

\* str.split(sep) of a path.
RECURSIVE split(_, _)
split(path, sep) ==
    IF \A i \in 1..Len(path) : path[i] # sep THEN <<path>>
    ELSE LET i == CHOOSE j \in 1..Len(path) :
                      path[j] = sep /\ \A k \in 1..(j - 1) : path[k] # sep
         IN  <<SubSeq(path, 1, i - 1)>> \o split(SubSeq(path, i + 1, Len(path)), sep)

\* sep.join(parts)
RECURSIVE sepjoin(_, _)
sepjoin(parts, sep) ==
    IF Len(parts) = 0 THEN <<>>
    ELSE IF Len(parts) = 1 THEN parts[1]
    ELSE join(parts[1], sepjoin(Tail(parts), sep), sep)

\* os.path.relpath(path, start) for absolute paths: the names of both after
\* their common beginning, one ".." for each name left of start.
relpath(path, start, sep) ==
    LET path_list  == split(path, sep)
        start_list == split(start, sep)
        common     == {n \in 0..Min(Len(path_list), Len(start_list)) :
                          SubSeq(path_list, 1, n) = SubSeq(start_list, 1, n)}
        i          == CHOOSE n \in common : \A m \in common : m <= n
        rel_list   == [k \in 1..(Len(start_list) - i) |-> <<".", ".">>]
                          \o SubSeq(path_list, i + 1, Len(path_list))
    IN  IF Len(rel_list) = 0 THEN <<".">> ELSE sepjoin(rel_list, sep)

\* str.replace(old, new) for one-character old and new.
replace(text, old, new) ==
    [i \in 1..Len(text) |-> IF text[i] = old THEN new ELSE text[i]]

\* The names of a set in the order os.scandir reports them.
RECURSIVE InOrder(_, _)
InOrder(names, order) ==
    IF names = {} THEN <<>>
    ELSE LET first == CHOOSE a \in names : \A b \in names : order[a] <= order[b]
         IN  <<first>> \o InOrder(names \ {first}, order)

\* os.walk(top), top-down, followlinks=False: the (root, dirs, files) of top,
\* then those of each entry of dirs that is not a symbolic link. top is given
\* by its names below the chosen directory.
RECURSIVE walk(_, _)
walk(d, top) ==
    LET inside  == {e \in d.tree : Parent(e.path) = top}
        named(kinds) == {e.path[Len(e.path)] : e \in {x \in inside : x.kind \in kinds}}
        dirs    == InOrder(named({"dir", "link"}), d.order)
        files   == InOrder(named({"file"}), d.order)
        entered == SelectSeq(dirs, LAMBDA name :
                       [path |-> Append(top, name), kind |-> "dir"] \in d.tree)
    IN  <<[root  |-> sepjoin(<<DirectoryName>> \o top, d.sep),
           dirs  |-> dirs,
           files |-> files]>>
        \o Flatten([j \in 1..Len(entered) |-> walk(d, Append(top, entered[j]))])

\* S3UploadAndDeleteApp._scan_directory
_scan_directory(d) ==
    LET walked == walk(d, <<>>)
    IN  Flatten([j \in 1..Len(walked) |->
            [k \in 1..Len(walked[j].files) |->
                LET file_path     == join(walked[j].root, walked[j].files[k], d.sep)
                    relative_path == relpath(file_path, DirectoryName, d.sep)
                IN  <<file_path, replace(relative_path, "\\", "/")>>]])

\* A thread as threading.Thread(target=..., daemon=True).start() leaves it.
NewWorker(kind, pc, tasks) ==
    [kind          |-> kind,      \* "upload", "dirupload", "delete", "sweep"
     pc            |-> pc,
     tasks         |-> tasks,     \* file_paths / file_list / selected_keys
     i             |-> 0,         \* loop position
     calls         |-> <<>>,      \* network calls issued, in order
     reports       |-> <<>>,      \* progress values reported, in order
     token         |-> NoToken,   \* sweep: continuation_token
     objects       |-> <<>>,      \* sweep: objects of the last listing
     total_deleted |-> 0,         \* sweep: total_deleted
     progress_bar  |-> [value |-> 0, maximum |-> 0],
     status_label  |-> NoLabel,
     ok_button     |-> "disabled",
     failures      |-> {},        \* per-key failures the code keeps
     dialog_alive  |-> kind \in {"delete", "sweep"},
     error         |-> NoError,
     directory     |-> NoDirectory,  \* directory upload: the directory chosen
     file_list     |-> <<>>]         \* directory upload: result of _scan_directory

Running(w) == w.pc \in {"scan", "run", "list", "delete"}
InFlight(w) == Running(w) \/ w.pc \in {"showinfo", "showerror"}

_disable_buttons ==
    [upload_btn |-> "disabled", upload_dir_btn |-> "disabled",
     delete_btn |-> "disabled"]
_enable_buttons ==
    [upload_btn |-> "normal", upload_dir_btn |-> "normal", delete_btn |-> "normal"]

\* The file lists a file dialog or a directory scan hands over: the first n
\* names in descending order (a list order that is not the key order).
FileOrder == [i \in 1..MaxNames |-> <<Alphabet[MaxNames + 1 - i]>>]
FileLists == {SubSeq(FileOrder, 1, n) : n \in 0..MaxNames}

\* The per-key errors a delete_objects response can report for a batch.
FailureSets(keys) == SUBSET Range(keys)

\* _handle_upload: returns early without a bucket or without chosen files.
_handle_upload(file_paths) ==
    /\ buttons.upload_btn = "normal"
    /\ Len(file_paths) > 0
    /\ Len(workers) < MaxOps
    /\ buttons' = _disable_buttons
    /\ workers' = Append(workers, NewWorker("upload", "run", file_paths))
    /\ UNCHANGED <<prefix_var, progress, progress_label, bucket, dialogVars>>
    /\ lastCall' = NoCall

\* _handle_directory_upload: file_list is what _scan_directory will return for
\* the chosen directory.
_handle_directory_upload(file_list) ==
    /\ buttons.upload_dir_btn = "normal"
    /\ Len(workers) < MaxOps
    /\ buttons' = _disable_buttons
    /\ workers' = Append(workers, NewWorker("dirupload", "scan", file_list))
    /\ UNCHANGED <<prefix_var, progress, progress_label, bucket, dialogVars>>
    /\ lastCall' = NoCall

\* upload_thread of _handle_directory_upload up to the first upload call.
dir_scan_step(w) ==
    /\ workers[w].kind = "dirupload"
    /\ workers[w].pc = "scan"
    /\ progress_label' = Label("scanning", 0, 0)
    /\ IF Len(workers[w].tasks) = 0
       THEN /\ workers' = [workers EXCEPT ![w].pc = "showinfo"]
            /\ UNCHANGED progress
       ELSE /\ workers' = [workers EXCEPT ![w].pc = "run"]
            /\ progress' = [progress EXCEPT !.maximum = Len(workers[w].tasks)]
    /\ UNCHANGED <<prefix_var, buttons, bucket, dialogVars>>
    /\ lastCall' = NoCall

\* _handle_directory_upload for a directory on disk: the thread is started with
\* directory_path, the scan is the thread's.
choose_directory(d) ==
    /\ buttons.upload_dir_btn = "normal"
    /\ Len(workers) < MaxOps
    /\ buttons' = _disable_buttons
    /\ workers' = Append(workers, [NewWorker("dirupload", "scan", <<>>)
                                      EXCEPT !.directory = d])
    /\ UNCHANGED <<prefix_var, progress, progress_label, bucket, dialogVars>>
    /\ lastCall' = NoCall

\* upload_thread of _handle_directory_upload up to the first upload call, for a
\* directory on disk: file_list = self._scan_directory(directory_path).
scan_directory_step(w) ==
    /\ workers[w].kind = "dirupload"
    /\ workers[w].pc = "scan"
    /\ workers[w].directory # NoDirectory
    /\ progress_label' = Label("scanning", 0, 0)
    /\ LET file_list == _scan_directory(workers[w].directory)
       IN  IF Len(file_list) = 0
           THEN /\ workers' = [workers EXCEPT ![w].pc = "showinfo"]
                /\ UNCHANGED progress
           ELSE /\ workers' = [workers EXCEPT
                                  ![w].pc = "run",
                                  ![w].file_list = file_list,
                                  ![w].tasks = [j \in 1..Len(file_list) |->
                                                   file_list[j][2]]]
                /\ progress' = [progress EXCEPT !.maximum = Len(file_list)]
    /\ UNCHANGED <<prefix_var, buttons, bucket, dialogVars>>
    /\ lastCall' = NoCall

\* The s3 key upload_thread computes for one task.
UploadKey(kind, name) ==
    IF kind = "upload" THEN _get_s3_key(prefix_var, name)
    ELSE _get_s3_key_for_directory(prefix_var, name)

\* What upload_thread does when upload_file raises: the except clause.
upload_raised(w, s3_key, e) ==
    [workers EXCEPT ![w].pc = "showerror",
                    ![w].calls = Append(@, CallRec("upload", <<s3_key>>, NoToken, TRUE, {})),
                    ![w].error = e]

\* upload_thread with a loop that leaves out the last task.
upload_returned_early(w, s3_key) ==
    LET n     == workers[w].i + 1
        total == Len(workers[w].tasks)
    IN  [workers EXCEPT ![w].pc = IF n + 1 >= total THEN "showinfo" ELSE "run",
                        ![w].i = n,
                        ![w].calls = Append(@, CallRec("upload", <<s3_key>>, NoToken, FALSE, {})),
                        ![w].reports = Append(@, n)]

\* What upload_thread does when upload_file returns: progress, and the
\* completion message after the last task.
upload_returned(w, s3_key) ==
    LET n     == workers[w].i + 1
        total == Len(workers[w].tasks)
    IN  [workers EXCEPT ![w].pc = IF n = total THEN "showinfo" ELSE "run",
                        ![w].i = n,
                        ![w].calls = Append(@, CallRec("upload", <<s3_key>>, NoToken, FALSE, {})),
                        ![w].reports = Append(@, n)]

\* One pass of the for loop of upload_thread (file and directory upload).
upload_step(w) ==
    /\ workers[w].kind \in {"upload", "dirupload"}
    /\ workers[w].pc = "run"
    /\ Len(workers[w].calls) < MaxCalls
    /\ LET n      == workers[w].i + 1
           total  == Len(workers[w].tasks)
           s3_key == UploadKey(workers[w].kind, workers[w].tasks[n])
       IN  \/ /\ \E e \in UploadErrors(s3_key) : workers' = upload_raised(w, s3_key, e)
              /\ progress' = [progress EXCEPT !.maximum = total]
              /\ UNCHANGED <<bucket, progress_label>>
           \/ /\ workers' = upload_returned(w, s3_key)
              /\ bucket' = bucket \cup {s3_key}
              /\ progress' = [value |-> n, maximum |-> total]
              /\ progress_label' =
                    IF n = total
                    THEN Label(IF workers[w].kind = "upload" THEN "upload_complete"
                               ELSE "dir_upload_complete", 0, 0)
                    ELSE Label("uploading", n, total)
    /\ UNCHANGED <<prefix_var, buttons, dialogVars>>
    /\ lastCall' = NoCall
\* upload_thread with the clean-up at the end of the try block instead of a
\* finally clause: it is skipped when an upload has raised.
dismiss_message_no_finally(w) ==
    /\ workers[w].pc \in {"showinfo", "showerror"}
    /\ LET ended == IF workers[w].pc = "showinfo" THEN "done" ELSE "failed"
       IN  IF workers[w].kind \in {"upload", "dirupload"}
           THEN /\ workers' = [workers EXCEPT ![w].pc = ended]
                /\ buttons' = IF ended = "done" THEN _enable_buttons ELSE buttons
                /\ progress' = IF ended = "done" THEN [progress EXCEPT !.value = 0]
                               ELSE progress
           ELSE /\ workers' = [workers EXCEPT ![w].pc = ended,
                                              ![w].ok_button = "normal"]
                /\ UNCHANGED <<buttons, progress>>
    /\ UNCHANGED <<prefix_var, progress_label, bucket, dialogVars>>
    /\ lastCall' = NoCall

\* The user closes the message box a worker shows; the worker then runs what
\* follows the messagebox call: the finally clause of upload_thread, or
\* ok_button['state'] = 'normal' in the except clause of delete_thread.
dismiss_message(w) ==
    /\ workers[w].pc \in {"showinfo", "showerror"}
    /\ LET ended == IF workers[w].pc = "showinfo" THEN "done" ELSE "failed"
       IN  IF workers[w].kind \in {"upload", "dirupload"}
           THEN /\ workers' = [workers EXCEPT ![w].pc = ended]
                /\ buttons' = _enable_buttons
                /\ progress' = [progress EXCEPT !.value = 0]
           ELSE /\ workers' = [workers EXCEPT ![w].pc = ended,
                                              ![w].ok_button = "normal"]
                /\ UNCHANGED <<buttons, progress>>
    /\ UNCHANGED <<prefix_var, progress_label, bucket, dialogVars>>
    /\ lastCall' = NoCall

\* _execute_delete: a progress dialog of its own and a delete_thread.
_execute_delete(keys, delete_all) ==
    /\ Len(workers) < MaxOps
    /\ workers' = Append(workers,
                    IF delete_all THEN NewWorker("sweep", "list", <<>>)
                    ELSE NewWorker("delete", "run", keys))
    /\ UNCHANGED <<prefix_var, mainVars, bucket, dialogVars>>
    /\ lastCall' = NoCall

\* delete_selected: returns early with nothing selected or without confirmation.
delete_selected ==
    /\ dialog_open
    /\ Len(selected_keys(all_pages)) > 0
    /\ _execute_delete(selected_keys(all_pages), FALSE)

\* delete_all: returns early without confirmation.
delete_all ==
    /\ dialog_open
    /\ _execute_delete(<<>>, TRUE)

\* The slice taken one key too long: selected_keys[i:i + DELETE_BATCH_SIZE + 1]
Batch_overlap(keys, i) == SubSeq(keys, i + 1, Min(i + DELETE_BATCH_SIZE + 1, Len(keys)))

\* batch = selected_keys[i:i + DELETE_BATCH_SIZE]
Batch(keys, i) == SubSeq(keys, i + 1, Min(i + DELETE_BATCH_SIZE, Len(keys)))

\* What the remote store holds after delete_objects returned with per-key
\* errors for the keys of `failed`.
AfterDelete(store, keys, failed) == store \ (Range(keys) \ failed)

\* delete_thread with the try inside the loop: a failed batch is skipped.
delete_raised_continue(w, keys, e) ==
    [workers EXCEPT
       ![w].pc = IF workers[w].kind = "sweep" THEN "list"
                 ELSE IF workers[w].i + DELETE_BATCH_SIZE >= Len(workers[w].tasks)
                      THEN "done" ELSE "run",
       ![w].i = @ + DELETE_BATCH_SIZE,
       ![w].calls = Append(@, CallRec("delete", keys, NoToken, TRUE, {}))]

\* delete_thread when delete_objects raises: the except clause up to the
\* message box.
delete_raised(w, keys, e) ==
    [workers EXCEPT ![w].pc = "showerror",
                    ![w].progress_bar =
                        [@ EXCEPT !.maximum = IF workers[w].kind = "delete"
                                              THEN Len(workers[w].tasks) ELSE @],
                    ![w].calls = Append(@, CallRec("delete", keys, NoToken, TRUE, {})),
                    ![w].error = e]

\* delete_thread that ends the batch loop at a response with per-key errors.
delete_returned_stops_on_failures(w, keys, failed) ==
    LET total == Len(workers[w].tasks)
        upto  == Min(workers[w].i + DELETE_BATCH_SIZE, total)
        last  == workers[w].i + DELETE_BATCH_SIZE >= total \/ failed # {}
    IN  [workers EXCEPT
           ![w].pc = IF last THEN "done" ELSE "run",
           ![w].i = @ + DELETE_BATCH_SIZE,
           ![w].calls = Append(@, CallRec("delete", keys, NoToken, FALSE, failed)),
           ![w].reports = Append(@, upto),
           ![w].progress_bar = [value |-> upto, maximum |-> total],
           ![w].status_label = IF last THEN Label("delete_complete", 0, 0)
                               ELSE Label("deleted", upto, total),
           ![w].ok_button = IF last THEN "normal" ELSE @]

\* delete_thread, selection mode, when delete_objects returns: the response is
\* not read; progress is set and, after the last batch, the completion status.
delete_returned(w, keys, failed) ==
    LET total == Len(workers[w].tasks)
        upto  == Min(workers[w].i + DELETE_BATCH_SIZE, total)
        last  == workers[w].i + DELETE_BATCH_SIZE >= total
    IN  [workers EXCEPT
           ![w].pc = IF last THEN "done" ELSE "run",
           ![w].i = @ + DELETE_BATCH_SIZE,
           ![w].calls = Append(@, CallRec("delete", keys, NoToken, FALSE, failed)),
           ![w].reports = Append(@, upto),
           ![w].progress_bar = [value |-> upto, maximum |-> total],
           ![w].status_label = IF last THEN Label("delete_complete", 0, 0)
                               ELSE Label("deleted", upto, total),
           ![w].ok_button = IF last THEN "normal" ELSE @]
\* delete_thread that reads the selection from the pages of the dialog at every
\* batch instead of the list delete_selected built.
delete_step_live_selection(w) ==
    /\ workers[w].kind = "delete"
    /\ workers[w].pc = "run"
    /\ Len(workers[w].calls) < MaxCalls
    /\ LET batch == Batch(selected_keys(all_pages), workers[w].i)
       IN  \/ /\ \E e \in DeleteErrors : workers' = delete_raised(w, batch, e)
              /\ UNCHANGED bucket
           \/ \E failed \in FailureSets(batch) :
                /\ workers' = delete_returned(w, batch, failed)
                /\ bucket' = AfterDelete(bucket, batch, failed)
    /\ UNCHANGED <<prefix_var, mainVars, dialogVars>>
    /\ lastCall' = NoCall

\* One pass of the batch loop of delete_thread (selection mode).
delete_step(w) ==
    /\ workers[w].kind = "delete"
    /\ workers[w].pc = "run"
    /\ Len(workers[w].calls) < MaxCalls
    /\ LET batch == Batch(workers[w].tasks, workers[w].i)
       IN  \/ /\ \E e \in DeleteErrors : workers' = delete_raised(w, batch, e)
              /\ UNCHANGED bucket
           \/ \E failed \in FailureSets(batch) :
                /\ workers' = delete_returned(w, batch, failed)
                /\ bucket' = AfterDelete(bucket, batch, failed)
    /\ UNCHANGED <<prefix_var, mainVars, dialogVars>>
    /\ lastCall' = NoCall

\* The list call of _delete_all_with_prefix sent without its token.
sweep_list_call_no_token(store, prefix, token) ==
    list_objects(store, prefix, DELETE_BATCH_SIZE, NoToken)

\* The list call of _delete_all_with_prefix, on a call that returns:
\* list_objects(bucket, prefix, DELETE_BATCH_SIZE, continuation_token)
sweep_list_call(store, prefix, token) ==
    list_objects(store, prefix, DELETE_BATCH_SIZE, token)

\* _delete_all_with_prefix: the list call of one pass of the while loop, and
\* the code after the loop when the listing is empty.
sweep_list_step(w) ==
    /\ workers[w].kind = "sweep"
    /\ workers[w].pc = "list"
    /\ Len(workers[w].calls) < MaxCalls
    /\ \/ \E e \in ListErrors : workers' = [workers EXCEPT
             ![w].pc = "showerror",
             ![w].calls = Append(@, CallRec("list", <<>>, workers[w].token, TRUE, {})),
             ![w].progress_bar = [@ EXCEPT !.maximum = SWEEP_PROGRESS_MAX],
             ![w].error = e]
       \/ \E r \in sweep_list_call(bucket, strip(prefix_var), workers[w].token) :
          LET none == Len(r.objects) = 0
          IN  workers' = [workers EXCEPT
                ![w].pc = IF none THEN "done" ELSE "delete",
                ![w].calls = Append(@, CallRec("list", r.objects, workers[w].token,
                                               FALSE, {})),
                ![w].objects = r.objects,
                ![w].token = r.next_token,
                ![w].progress_bar =
                    [value   |-> IF none THEN SWEEP_PROGRESS_MAX ELSE @.value,
                     maximum |-> SWEEP_PROGRESS_MAX],
                ![w].status_label = IF none THEN Label("delete_complete", 0, 0) ELSE @,
                ![w].ok_button = IF none THEN "normal" ELSE @]
    /\ UNCHANGED <<prefix_var, mainVars, bucket, dialogVars>>
    /\ lastCall' = NoCall

\* _delete_all_with_prefix after delete_objects returned; `last` says whether
\* the loop ends here.
\* progress_bar['value'] = min(progress_bar['value'] + 10, 990)
sweep_bar(value) == Min(value + SWEEP_PROGRESS_STEP, SWEEP_PROGRESS_CAP)

RECURSIVE sweep_bar_after(_, _)
\* The value of the progress bar after n more passes of the while loop: n
\* applications of sweep_bar, taken in two halves, the value after the first
\* half bound before the second starts, to keep the evaluation flat.
sweep_bar_after(value, n) ==
    IF n = 0 THEN value
    ELSE IF n = 1 THEN sweep_bar(value)
    ELSE CHOOSE r \in {sweep_bar_after(m, n - (n \div 2)) :
                          m \in {sweep_bar_after(value, n \div 2)}} : TRUE

sweep_after_delete(w, failed, last) ==
    LET count == workers[w].total_deleted + Len(workers[w].objects)
    IN  [workers EXCEPT
           ![w].pc = IF last THEN "done" ELSE "list",
           ![w].calls = Append(@, CallRec("delete", workers[w].objects, NoToken,
                                          FALSE, failed)),
           ![w].total_deleted = count,
           ![w].reports = Append(@, count),
           ![w].progress_bar =
               [@ EXCEPT !.value = IF last THEN SWEEP_PROGRESS_MAX
                                   ELSE sweep_bar(@)],
           ![w].status_label = IF last THEN Label("delete_complete", 0, 0)
                               ELSE Label("swept", count, 0),
           ![w].ok_button = IF last THEN "normal" ELSE @]

\* The loop without its `if not continuation_token: break`.
sweep_returned_no_break(w, failed) == sweep_after_delete(w, failed, FALSE)

\* _delete_all_with_prefix when delete_objects returns: the response is not
\* read; the count grows by the keys submitted and the loop ends without a token.
sweep_returned(w, failed) == sweep_after_delete(w, failed, workers[w].token = NoToken)

\* _delete_all_with_prefix: the delete call of one pass of the while loop.
sweep_delete_step(w) ==
    /\ workers[w].kind = "sweep"
    /\ workers[w].pc = "delete"
    /\ Len(workers[w].calls) < MaxCalls
    /\ \/ /\ \E e \in DeleteErrors : workers' = delete_raised(w, workers[w].objects, e)
          /\ UNCHANGED bucket
       \/ \E failed \in FailureSets(workers[w].objects) :
            /\ workers' = sweep_returned(w, failed)
            /\ bucket' = AfterDelete(bucket, workers[w].objects, failed)
    /\ UNCHANGED <<prefix_var, mainVars, dialogVars>>
    /\ lastCall' = NoCall

\* _close_progress_dialog, the command of the OK button of a progress dialog:
\* destroys the progress dialog and the delete dialog, and with the delete
\* dialog every progress dialog that is a child of it.  The model follows the
\* button only once no other delete_thread of this dialog is still running.
_close_progress_dialog(w) ==
    /\ workers[w].dialog_alive
    /\ workers[w].ok_button = "normal"
    /\ \A o \in DOMAIN workers : workers[o].dialog_alive => ~InFlight(workers[o])
    /\ workers' = [o \in DOMAIN workers |-> [workers[o] EXCEPT !.dialog_alive = FALSE]]
    /\ dialog_open' = FALSE
    /\ all_pages' = <<>>
    /\ current_page' = 0
    /\ continuation_token' = NoToken
    /\ checkbox_vars' = <<>>
    /\ UNCHANGED <<prefix_var, mainVars, bucket>>
    /\ lastCall' = NoCall

\* The handlers that start a worker thread.
StartWorker ==
    \/ \E file_paths \in FileLists : _handle_upload(file_paths)
    \/ \E file_list \in FileLists : _handle_directory_upload(file_list)
    \/ delete_selected
    \/ delete_all

\* The other handlers of the control thread.
Handler ==
    \/ _handle_delete
    \/ \E index \in 1..MAX_KEYS_PER_PAGE : ToggleCheckbox(index)
    \/ load_next_page
    \/ load_previous_page
    \/ \E w \in DOMAIN workers : dismiss_message(w)
    \/ \E w \in DOMAIN workers : _close_progress_dialog(w)

\* One step of a worker thread.
WorkerStep ==
    \/ \E w \in DOMAIN workers : dir_scan_step(w)
    \/ \E w \in DOMAIN workers : upload_step(w)
    \/ \E w \in DOMAIN workers : delete_step(w)
    \/ \E w \in DOMAIN workers : sweep_list_step(w)
    \/ \E w \in DOMAIN workers : sweep_delete_step(w)

Next == StartWorker \/ Handler \/ WorkerStep

\* Every behaviour of the program with at most MaxOps workers started.
Spec == Init /\ [][Next]_vars

\* The behaviours in which one worker is started: one operation from its start
\* to its end, with the dialog handlers running beside it.
SoloNext == (workers = <<>> /\ StartWorker) \/ Handler \/ WorkerStep
SoloSpec == Init /\ [][SoloNext]_vars

\* A started thread keeps running: each worker step that is enabled is
\* eventually taken.
SoloFairSpec == SoloSpec /\ WF_vars(WorkerStep)

\* A started thread keeps running and a message box it shows returns: the user
\* closes it.
MessageClosed == \E w \in DOMAIN workers : dismiss_message(w)
SoloClosingSpec == SoloSpec /\ WF_vars(WorkerStep) /\ WF_vars(MessageClosed)

\* No call of a worker has raised or reported a per-key error, and the handler
\* of the last step made no call that raised.
NoFault ==
    /\ \A w \in DOMAIN workers :
           /\ workers[w].error = NoError
           /\ \A c \in DOMAIN workers[w].calls :
                  ~workers[w].calls[c].raised /\ workers[w].calls[c].failed = {}
    /\ ~lastCall.raised

\* The behaviours of Spec in which the remote store answers every call without
\* an error: up to MaxOps workers side by side on a store that never fails.
NoFaultNext ==
    \/ StartWorker /\ NoFault'
    \/ Handler /\ NoFault'
    \/ WorkerStep /\ NoFault'
NoFaultSpec == Init /\ [][NoFaultNext]_vars

\* The texts of the prefix entry: blanks, separators and letters in any order.
PrefixChars == {" ", "/", "p"}
PrefixTexts == UNION {[1..n -> PrefixChars] : n \in 0..MaxPrefixLen}

\* The uploads of one operation for every text of the prefix entry: the key
\* computation applied by the upload threads.
KeyInit ==
    /\ prefix_var \in PrefixTexts
    /\ bucket = {OutsideKey}
    /\ MainScreen
KeyNext ==
    \/ workers = <<>> /\ \E file_paths \in FileLists : _handle_upload(file_paths)
    \/ workers = <<>> /\ \E file_list \in FileLists : _handle_directory_upload(file_list)
    \/ \E w \in DOMAIN workers : dir_scan_step(w)
    \/ \E w \in DOMAIN workers : upload_step(w)
    \/ \E w \in DOMAIN workers : dismiss_message(w)
KeySpec == KeyInit /\ [][KeyNext]_vars

\* The directory upload of one directory on disk, for every tree, platform and
\* scan order.
ScanNext ==
    \/ workers = <<>> /\ \E d \in Directories : choose_directory(d)
    \/ \E w \in DOMAIN workers : scan_directory_step(w)
    \/ \E w \in DOMAIN workers : upload_step(w)
    \/ \E w \in DOMAIN workers : dismiss_message(w)
ScanSpec == Init /\ [][ScanNext]_vars

\* The cap on a worker's call log never stops a worker that has a call to make.
CallCapNeverBinds ==
    \A w \in DOMAIN workers : Running(workers[w]) => Len(workers[w].calls) < MaxCalls

\* ------------------------------------------------------------------ claims
Uploads == {"upload", "dirupload"}
Deletes == {"delete", "sweep"}
Count(k, q) == Cardinality({i \in 1..Len(q) : q[i] = k})
CeilDiv(n, b) == (n + b - 1) \div b
\* The keys of every call of a log, one after the other.
RECURSIVE SubmittedKeys(_)
SubmittedKeys(calls) ==
    IF Len(calls) = 0 THEN <<>> ELSE Head(calls).keys \o SubmittedKeys(Tail(calls))

\* C1: at most one lifecycle worker is in flight at any time: no two worker
\* threads are between their start and their end together.
C1_OneWorkerInFlight ==
    \A a, b \in DOMAIN workers :
        (Running(workers[a]) /\ Running(workers[b])) => a = b

\* C2: a selection delete of N keys in which no call raised issued exactly
\* ceil(N / DELETE_BATCH_SIZE) delete_objects calls, each with 1 to
\* DELETE_BATCH_SIZE keys; every input key occurs in the calls as often as in
\* the input, and each response reports as failed only keys of its call (the
\* other keys of the call are its deleted keys).
C2_BatchCalls ==
    \A w \in DOMAIN workers :
        (workers[w].kind = "delete" /\ workers[w].pc = "done") =>
            LET keys  == workers[w].tasks
                calls == workers[w].calls
            IN  /\ Len(keys) >= 1
                /\ Len(calls) = CeilDiv(Len(keys), DELETE_BATCH_SIZE)
                /\ \A j \in 1..Len(calls) :
                      /\ calls[j].op = "delete"
                      /\ ~calls[j].raised
                      /\ Len(calls[j].keys) \in 1..DELETE_BATCH_SIZE
                      /\ calls[j].failed \subseteq Range(calls[j].keys)
                /\ \A k \in Range(keys) \cup Range(SubmittedKeys(calls)) :
                      Count(k, SubmittedKeys(calls)) = Count(k, keys)

\* A selection delete that ended without a raise after more than one batch,
\* the last batch shorter than DELETE_BATCH_SIZE.
C2_Witness ==
    \E w \in DOMAIN workers :
        /\ workers[w].kind = "delete"
        /\ workers[w].pc = "done"
        /\ Len(workers[w].calls) >= 2
        /\ Len(workers[w].calls[Len(workers[w].calls)].keys) < DELETE_BATCH_SIZE

\* C3: a step of the open dialog that changes the displayed page (load_next_page,
\* with or without a fetch, or load_previous_page) leaves every entry of every
\* fetched page as it was; an entry changes only by a toggle of its own
\* checkbox: it is on the displayed page, keeps its key, and the displayed
\* page stays.
C3_NavigationKeepsFlags ==
    [][(dialog_open /\ dialog_open') =>
         /\ Len(all_pages') >= Len(all_pages)
         /\ current_page' # current_page =>
               \A p \in 1..Len(all_pages) : all_pages'[p] = all_pages[p]
         /\ \A p \in 1..Len(all_pages) :
               /\ Len(all_pages'[p]) = Len(all_pages[p])
               /\ \A i \in 1..Len(all_pages[p]) :
                     all_pages'[p][i] # all_pages[p][i] =>
                         /\ p = current_page + 1
                         /\ current_page' = current_page
                         /\ all_pages'[p][i][1] = all_pages[p][i][1]
                         /\ checkbox_vars'[i] # checkbox_vars[i]]_vars

\* A key checked on the second page while the first page is displayed again.
C3_Witness ==
    /\ dialog_open
    /\ Len(all_pages) >= 2
    /\ current_page = 0
    /\ \E i \in 1..Len(all_pages[2]) : all_pages[2][i][2]

\* The keys checked on any fetched page.
CheckedKeys(pages) ==
    UNION {{pages[p][i][1] : i \in {j \in 1..Len(pages[p]) : pages[p][j][2]}} :
           p \in 1..Len(pages)}

\* C4: the keys a delete_selected step hands to its delete thread are the keys
\* checked on any fetched page at that step, each once.
C4_SelectedKeysOfAllPages ==
    [][(/\ Len(workers') = Len(workers) + 1
        /\ workers'[Len(workers')].kind = "delete") =>
         /\ Range(workers'[Len(workers')].tasks) = CheckedKeys(all_pages)
         /\ Len(workers'[Len(workers')].tasks) = Cardinality(CheckedKeys(all_pages))]_vars

\* A delete thread started with a key of a page that was not the displayed one.
C4_Witness ==
    /\ dialog_open
    /\ Len(all_pages) >= 2
    /\ \E w \in DOMAIN workers :
          /\ workers[w].kind = "delete"
          /\ workers[w].calls = <<>>
          /\ \E p \in 1..Len(all_pages) :
                /\ p # current_page + 1
                /\ \E i \in 1..Len(all_pages[p]) :
                      all_pages[p][i][1] \in Range(workers[w].tasks)
          /\ \E i \in 1..Len(all_pages[current_page + 1]) :
                all_pages[current_page + 1][i][1] \in Range(workers[w].tasks)

\* The worker shows its full-completion status: "✓ 削除完了!" on the status label
\* of a delete, the completion label and message box of an upload.
ClaimsCompletion(w) ==
    \/ w.kind \in Deletes /\ w.status_label.text = "delete_complete"
    \/ w.kind \in Uploads /\ w.pc \in {"showinfo", "done"} /\ Len(w.tasks) > 0

\* No call of the worker raised and no delete response reported a per-key error.
AllSucceeded(w) ==
    \A j \in 1..Len(w.calls) : ~w.calls[j].raised /\ w.calls[j].failed = {}

\* C5: an operation shows its full-completion status only if every task or key
\* of it succeeded: no upload raised, no delete batch raised and no delete
\* response reported a per-key failure.
C5_CompletionOnlyIfAllSucceeded ==
    \A w \in DOMAIN workers : ClaimsCompletion(workers[w]) => AllSucceeded(workers[w])

\* C6: when a selection delete or a prefix sweep has ended, every per-key
\* failure a delete_objects response reported is among the failures the
\* operation kept for its caller.
C6_FailuresSurfaced ==
    \A w \in DOMAIN workers :
        (workers[w].kind \in Deletes /\ workers[w].pc \in {"done", "failed"}) =>
            \A j \in 1..Len(workers[w].calls) :
                workers[w].calls[j].failed \subseteq workers[w].failures

\* C7: in an upload (of files or of a directory) whose upload call for task k
\* raised, that call is the last one: the calls are those of tasks 1..k, one
\* each, in order, with the key of the task; the progress reports are 1..k-1;
\* the operation is in its error state and the error names the key of task k.
\* An upload is in its error state only after such a call.
C7_UploadStopsAtFirstFailure ==
    \A w \in DOMAIN workers :
        workers[w].kind \in Uploads =>
            LET u == workers[w]
            IN  /\ u.pc \in {"showerror", "failed"} =>
                      Len(u.calls) > 0 /\ u.calls[Len(u.calls)].raised
                /\ \A k \in 1..Len(u.calls) :
                      u.calls[k].raised =>
                          /\ k = Len(u.calls)
                          /\ k <= Len(u.tasks)
                          /\ u.pc \in {"showerror", "failed"}
                          /\ \A j \in 1..k :
                                /\ u.calls[j].op = "upload"
                                /\ u.calls[j].keys = <<UploadKey(u.kind, u.tasks[j])>>
                          /\ u.reports = [j \in 1..(k - 1) |-> j]
                          /\ u.error = UploadError(UploadKey(u.kind, u.tasks[k]))

\* An upload of three tasks that ended in its error state at the second.
C7_Witness ==
    \E w \in DOMAIN workers :
        /\ workers[w].kind \in Uploads
        /\ workers[w].pc = "failed"
        /\ Len(workers[w].tasks) = 3
        /\ Len(workers[w].calls) = 2
        /\ workers[w].calls[2].raised

\* C8: in a selection delete whose delete call for batch j raised, that call is
\* the last one (no later batch, no second submission of batch j): the calls
\* are those of batches 1..j, one each, in order; the keys the responses of
\* batches 1..j-1 reported deleted are not in the bucket; the operation is in
\* its error state, and its progress bar and, after a first batch, its status
\* label show the keys of the j-1 batches completed before.
C8_DeleteStopsAtFailedBatch ==
    \A w \in DOMAIN workers :
        workers[w].kind = "delete" =>
            LET d == workers[w]
                n == Len(d.tasks)
            IN  \A j \in 1..Len(d.calls) :
                    d.calls[j].raised =>
                        /\ j = Len(d.calls)
                        /\ d.pc \in {"showerror", "failed"}
                        /\ d.error \in DeleteErrors
                        /\ \A b \in 1..j :
                              /\ d.calls[b].op = "delete"
                              /\ d.calls[b].keys =
                                    SubSeq(d.tasks, (b - 1) * DELETE_BATCH_SIZE + 1,
                                           Min(b * DELETE_BATCH_SIZE, n))
                        /\ \A b \in 1..(j - 1) :
                              (Range(d.calls[b].keys) \ d.calls[b].failed) \cap bucket = {}
                        /\ d.reports = [b \in 1..(j - 1) |-> b * DELETE_BATCH_SIZE]
                        /\ d.progress_bar = [value   |-> (j - 1) * DELETE_BATCH_SIZE,
                                             maximum |-> n]
                        /\ j > 1 => d.status_label =
                                       Label("deleted", (j - 1) * DELETE_BATCH_SIZE, n)

\* A selection delete that ended in its error state at its second batch.
C8_Witness ==
    \E w \in DOMAIN workers :
        /\ workers[w].kind = "delete"
        /\ workers[w].pc = "failed"
        /\ Len(workers[w].calls) = 2
        /\ workers[w].calls[2].raised

SweepRunning(w) ==
    w \in DOMAIN workers /\ workers[w].kind = "sweep" /\ workers[w].pc \in {"list", "delete"}
SweepEnded(w) ==
    w \in DOMAIN workers /\ workers[w].kind = "sweep" /\ workers[w].pc \notin {"list", "delete"}

\* C9: a prefix sweep whose calls all return or raise leaves its loop: a running
\* _delete_all_with_prefix eventually has returned or raised.
C9_SweepTerminates ==
    \A w \in 1..MaxOps : [](SweepRunning(w) => <>SweepEnded(w))

\* A sweep that returned after a list call with no keys, its third call or later.
C9_Witness ==
    \E w \in DOMAIN workers :
        /\ workers[w].kind = "sweep"
        /\ workers[w].pc = "done"
        /\ Len(workers[w].calls) >= 3
        /\ workers[w].calls[Len(workers[w].calls)].op = "list"
        /\ workers[w].calls[Len(workers[w].calls)].keys = <<>>

\* C10: the calls of a prefix sweep alternate list and delete; each delete call
\* submits exactly the keys the list call right before it returned; a list call
\* that returned keys is followed by its delete call before any other call; no
\* key is submitted twice in the sweep.
C10_SweepSubmitsListedKeysOnce ==
    \A w \in DOMAIN workers :
        workers[w].kind = "sweep" =>
            LET c == workers[w].calls
                D == {j \in 1..Len(c) : c[j].op = "delete"}
            IN  /\ \A j \in 1..Len(c) : c[j].op = IF j % 2 = 1 THEN "list" ELSE "delete"
                /\ \A j \in D :
                      /\ ~c[j - 1].raised
                      /\ Len(c[j].keys) > 0
                      /\ c[j].keys = c[j - 1].keys
                      /\ Cardinality(Range(c[j].keys)) = Len(c[j].keys)
                /\ \A j \in (1..Len(c)) \ D :
                      Len(c[j].keys) > 0 =>
                          IF j = Len(c) THEN workers[w].pc = "delete" ELSE j + 1 \in D
                /\ \A j1, j2 \in D :
                      j1 # j2 => Range(c[j1].keys) \cap Range(c[j2].keys) = {}

\* A sweep that has issued its second delete call.
C10_Witness ==
    \E w \in DOMAIN workers :
        /\ workers[w].kind = "sweep"
        /\ Len(workers[w].calls) >= 4
        /\ workers[w].calls[4].op = "delete"

\* The keys of every fetched page.
PageKeys(pages) == UNION {Range(KeysOfPage(pages[p])) : p \in 1..Len(pages)}

\* C11: a load_next_page step makes a list call only when the displayed page is
\* the last fetched page and a token is stored, and passes that token; when the
\* call returns, the pages are the old pages with one page appended, made of
\* the returned keys (none of them on a page fetched before) and unchecked, the
\* displayed page is the new page and the stored token is the returned one.
\* With a later page fetched, the step makes no call, moves the index by one
\* and leaves pages and token as they are.
C11_NextPageFetchesOnlyAtEnd ==
    [][lastCall'.by = "load_next_page" =>
         /\ lastCall'.op = "list" =>
               /\ current_page + 1 = Len(all_pages)
               /\ continuation_token # NoToken
               /\ lastCall'.token = continuation_token
         /\ (lastCall'.op = "list" /\ ~lastCall'.raised) =>
               /\ Len(all_pages') = Len(all_pages) + 1
               /\ SubSeq(all_pages', 1, Len(all_pages)) = all_pages
               /\ current_page' = Len(all_pages)
               /\ \E r \in list_objects(bucket, strip(prefix_var), MAX_KEYS_PER_PAGE,
                                        continuation_token) :
                     /\ all_pages'[Len(all_pages')] = NewPage(r.objects)
                     /\ continuation_token' = r.next_token
               /\ PageKeys(all_pages) \cap
                      Range(KeysOfPage(all_pages'[Len(all_pages')])) = {}
         /\ current_page + 1 < Len(all_pages) =>
               /\ lastCall'.op = "none"
               /\ current_page' = current_page + 1
               /\ all_pages' = all_pages
               /\ continuation_token' = continuation_token]_vars

\* load_next_page has fetched the second page and the store reported no
\* continuation.
C11_Witness ==
    /\ lastCall.by = "load_next_page"
    /\ lastCall.op = "list"
    /\ ~lastCall.raised
    /\ Len(all_pages) = 2
    /\ current_page = 1
    /\ continuation_token = NoToken

\* C12: a load_previous_page step makes no list call, and on page 0 it leaves
\* pages, flags, displayed index and token as they are; so does a
\* load_next_page step on the last fetched page with no token stored, which
\* makes no list call either.
C12_NavigationAtTheEnds ==
    [][/\ lastCall'.by = "load_previous_page" =>
             /\ lastCall'.op = "none"
             /\ current_page = 0 => UNCHANGED dialogVars
       /\ (/\ lastCall'.by = "load_next_page"
           /\ current_page + 1 = Len(all_pages)
           /\ continuation_token = NoToken) =>
             /\ lastCall'.op = "none"
             /\ UNCHANGED dialogVars]_vars

\* load_previous_page has run on the only page of the dialog, a key of it checked.
C12_Witness ==
    /\ dialog_open
    /\ lastCall.by = "load_previous_page"
    /\ Len(all_pages) = 1
    /\ current_page = 0
    /\ \E i \in 1..Len(all_pages[1]) : all_pages[1][i][2]

\* C13: a load_next_page step whose list call raised shows the error and leaves
\* pages, flags, displayed index and token as they were, so that the step
\* after it can be the same call again: the displayed page is still the last
\* one and the token is still stored.
C13_FailedFetchKeepsCache ==
    [][(lastCall'.by = "load_next_page" /\ lastCall'.raised) =>
         /\ lastCall'.message = "showerror"
         /\ UNCHANGED dialogVars
         /\ current_page' + 1 = Len(all_pages')
         /\ continuation_token' # NoToken
         /\ lastCall'.token = continuation_token']_vars

\* The list call of load_next_page has raised, a key of the first page checked.
C13_Witness ==
    /\ dialog_open
    /\ lastCall.by = "load_next_page"
    /\ lastCall.raised
    /\ \E i \in 1..Len(all_pages[1]) : all_pages[1][i][2]

\* C14: a step of a worker thread (a step in which the call log of a worker
\* grows) leaves the shared state as it is: the trigger buttons, the progress
\* bar and label of the main window and the cache of the delete dialog change
\* only in steps of the control thread.
C14_WorkersLeaveSharedState ==
    [][(\E w \in DOMAIN workers : Len(workers'[w].calls) > Len(workers[w].calls)) =>
         UNCHANGED <<buttons, progress, progress_label, dialogVars>>]_vars

\* C15: no handler running on the control thread makes a network call: every
\* list, upload and delete call is made by a worker.
C15_NoCallOnControlThread == lastCall.op = "none"

\* The calls of a log that returned, in order.
Returned(calls) == SelectSeq(calls, LAMBDA c : ~c.raised /\ c.op # "list")

\* The progress values a worker has reported are strictly increasing and at
\* most its total (a sweep has none), one per returned upload or delete call.
ReportsInOrder(w) ==
    /\ Len(w.reports) = Len(Returned(w.calls))
    /\ \A j \in 1..Len(w.reports) :
          /\ j > 1 => w.reports[j - 1] < w.reports[j]
          /\ w.kind # "sweep" => w.reports[j] <= Len(w.tasks)
    /\ w.progress_bar.value <= w.progress_bar.maximum

\* C16: in every operation the reported progress values are strictly
\* increasing and at most the total, the value for task or batch i reported
\* after its call returned and before the next call; and each further pass of
\* a running sweep raises the value of its progress bar.
C16_ProgressStrictlyIncreasing ==
    \A w \in DOMAIN workers :
        /\ ReportsInOrder(workers[w])
        /\ (workers[w].kind = "sweep" /\ workers[w].pc \in {"list", "delete"}) =>
              \A n \in 0..(MaxPasses - 1) :
                  sweep_bar_after(workers[w].progress_bar.value, n)
                      < sweep_bar_after(workers[w].progress_bar.value, n + 1)

\* The part of C16 about the values the workers of the model report.
C16_ReportsInOrder == \A w \in DOMAIN workers : ReportsInOrder(workers[w])

\* C17: an upload (of files or of a directory) with no failed call has made its
\* calls one after the other in the order of its tasks, call j with the remote
\* key of task j, and when it has ended it has made exactly one call per task.
C17_OneUploadPerTaskInOrder ==
    \A w \in DOMAIN workers :
        (workers[w].kind \in Uploads /\ AllSucceeded(workers[w])) =>
            LET u == workers[w]
            IN  /\ Len(u.calls) = u.i
                /\ Len(u.calls) <= Len(u.tasks)
                /\ \A j \in 1..Len(u.calls) :
                      /\ u.calls[j].op = "upload"
                      /\ u.calls[j].keys =
                            <<IF u.kind = "upload"
                              THEN _get_s3_key(prefix_var, u.tasks[j])
                              ELSE _get_s3_key_for_directory(prefix_var, u.tasks[j])>>
                /\ u.pc \in {"showinfo", "done"} => Len(u.calls) = Len(u.tasks)
                /\ u.pc = "run" => Len(u.calls) < Len(u.tasks)

\* An upload of three files that has ended with no failed call.
C17_Witness ==
    \E w \in DOMAIN workers :
        /\ workers[w].kind = "upload"
        /\ workers[w].pc = "done"
        /\ Len(workers[w].tasks) = 3
        /\ Len(workers[w].calls) = 3
        /\ AllSucceeded(workers[w])

\* The key the claim gives for prefix p and name n.
ClaimedKey(p, n) ==
    IF Len(p) = 0 THEN n
    ELSE IF endswith(p, "/") THEN p \o n
    ELSE p \o <<"/">> \o n

\* File names and relative paths the key computation is asked for.
KeyNames == Names \cup {<<"a", "/", "b">>}

\* C18 as stated, with p the text of the prefix entry: both functions give the
\* claimed key for every name, and every upload call carries the claimed key
\* of its task.
C18_KeyOfPrefixText ==
    /\ \A n \in KeyNames :
          /\ _get_s3_key(prefix_var, n) = ClaimedKey(prefix_var, n)
          /\ _get_s3_key_for_directory(prefix_var, n) = ClaimedKey(prefix_var, n)
    /\ \A w \in DOMAIN workers :
          workers[w].kind \in Uploads =>
              \A j \in 1..Len(workers[w].calls) :
                  workers[w].calls[j].keys =
                      <<ClaimedKey(prefix_var, workers[w].tasks[j])>>

\* C18, amended: with p the text of the prefix entry without its leading and
\* trailing blanks, both functions give the claimed key for every name, and
\* every upload call carries the claimed key of its task.
C18_KeyOfStrippedPrefix ==
    /\ \A n \in KeyNames :
          /\ _get_s3_key(prefix_var, n) = ClaimedKey(strip(prefix_var), n)
          /\ _get_s3_key_for_directory(prefix_var, n) = ClaimedKey(strip(prefix_var), n)
    /\ \A w \in DOMAIN workers :
          workers[w].kind \in Uploads =>
              \A j \in 1..Len(workers[w].calls) :
                  workers[w].calls[j].keys =
                      <<ClaimedKey(strip(prefix_var), workers[w].tasks[j])>>

\* A file uploaded under a prefix typed with a blank before it and the
\* separator after it.
C18_Witness ==
    /\ prefix_var = <<" ", "p", "/">>
    /\ \E w \in DOMAIN workers :
          /\ workers[w].kind = "upload"
          /\ Len(workers[w].calls) > 0
          /\ workers[w].calls[1].keys = <<<<"p", "/">> \o workers[w].tasks[1]>>

\* The files of a chosen directory, the local path of an entry, and its path
\* relative to the chosen directory with "/" between the names.
FilesOf(d) == {e \in d.tree : e.kind = "file"}
LocalPath(d, e) == sepjoin(<<DirectoryName>> \o e.path, d.sep)
RelativeName(e) == sepjoin(e.path, "/")
RelativePaths(file_list) == {file_list[j][2] : j \in 1..Len(file_list)}

\* The directory uploads whose scan has returned.
Scanned ==
    {w \in DOMAIN workers :
        /\ workers[w].kind = "dirupload"
        /\ workers[w].directory # NoDirectory
        /\ workers[w].pc # "scan"}

\* Every file of the tree is yielded exactly once, and nothing else is.
YieldsEachFileOnce(d, file_list) ==
    /\ Len(file_list) = Cardinality(FilesOf(d))
    /\ \A e \in FilesOf(d) :
          \E j \in 1..Len(file_list) : file_list[j][1] = LocalPath(d, e)

\* Every traversal order gives the same set of relative paths.
SameForEveryOrder(d, file_list) ==
    \A o \in EntryOrders :
        RelativePaths(_scan_directory([d EXCEPT !.order = o])) = RelativePaths(file_list)

\* C19: for every directory tree the scan yields each file below the root
\* exactly once, paired with its path relative to the root with "/" as the
\* separator; the set of relative paths does not depend on the traversal order;
\* an empty directory yields an empty result and no error.
C19_ScanYieldsRelativePaths ==
    \A w \in Scanned :
        LET d         == workers[w].directory
            file_list == workers[w].file_list
        IN  /\ YieldsEachFileOnce(d, file_list)
            /\ \A j \in 1..Len(file_list) :
                  \E e \in FilesOf(d) :
                      file_list[j] = <<LocalPath(d, e), RelativeName(e)>>
            /\ SameForEveryOrder(d, file_list)
            /\ FilesOf(d) = {} => file_list = <<>> /\ workers[w].error = NoError

\* C19 where it holds: the same statement for the trees none of whose names
\* holds a backslash.
C19_ScanOfPlainNames ==
    \A w \in Scanned :
        LET d         == workers[w].directory
            file_list == workers[w].file_list
        IN  /\ YieldsEachFileOnce(d, file_list)
            /\ SameForEveryOrder(d, file_list)
            /\ FilesOf(d) = {} => file_list = <<>> /\ workers[w].error = NoError
            /\ (\A e \in d.tree : \A i \in 1..Len(e.path) : ~HasChar(e.path[i], "\\"))
                  => \A j \in 1..Len(file_list) :
                        \E e \in FilesOf(d) :
                            file_list[j] = <<LocalPath(d, e), RelativeName(e)>>

\* A scan that has returned two files of different directories with one and
\* the same relative path.
C19_Witness ==
    \E w \in Scanned :
        \E j, k \in 1..Len(workers[w].file_list) :
            /\ j # k
            /\ workers[w].file_list[j][2] = workers[w].file_list[k][2]

\* Worker w has just had a delete call return with per-key failures.
ReturnedWithFailures(w) ==
    /\ Len(workers'[w].calls) = Len(workers[w].calls) + 1
    /\ LET c == workers'[w].calls[Len(workers'[w].calls)]
       IN  c.op = "delete" /\ ~c.raised /\ c.failed # {}

\* C20: a delete call that returns with per-key failures is not fatal. The
\* thread records no error; in selection mode it goes on to the next batch
\* unless the batch was the last one, in a prefix sweep it goes on to the next
\* list call unless the listing had no token; and it reports the progress of a
\* call without failures.
C20_PerKeyFailuresNotFatal ==
    [][\A w \in DOMAIN workers :
          ReturnedWithFailures(w) =>
              /\ workers'[w].error = NoError
              /\ workers'[w].failures = workers[w].failures
              /\ workers[w].kind = "delete" =>
                    /\ workers'[w].pc =
                          IF workers[w].i + DELETE_BATCH_SIZE < Len(workers[w].tasks)
                          THEN "run" ELSE "done"
                    /\ workers'[w].i = workers[w].i + DELETE_BATCH_SIZE
                    /\ workers'[w].reports =
                          Append(workers[w].reports,
                                 Min(workers[w].i + DELETE_BATCH_SIZE,
                                     Len(workers[w].tasks)))
              /\ workers[w].kind = "sweep" =>
                    /\ workers'[w].pc =
                          IF workers[w].token = NoToken THEN "done" ELSE "list"
                    /\ workers'[w].reports =
                          Append(workers[w].reports,
                                 workers[w].total_deleted + Len(workers[w].objects))]_vars

\* A selection delete whose first batch came back with per-key failures and
\* whose second batch was submitted all the same.
C20_Witness ==
    \E w \in DOMAIN workers :
        /\ workers[w].kind = "delete"
        /\ Len(workers[w].calls) >= 2
        /\ ~workers[w].calls[1].raised
        /\ workers[w].calls[1].failed # {}
        /\ workers[w].calls[2].keys =
              Batch(workers[w].tasks, DELETE_BATCH_SIZE)

\* A prefix sweep whose delete call came back with per-key failures and whose
\* next list call was made all the same.
C20_SweepGoesOn ==
    \E w \in DOMAIN workers :
        /\ workers[w].kind = "sweep"
        /\ \E j \in 1..(Len(workers[w].calls) - 1) :
              /\ workers[w].calls[j].op = "delete"
              /\ workers[w].calls[j].failed # {}
              /\ workers[w].calls[j + 1].op = "list"

\* The list calls of a log that returned, in order.
ListCalls(calls) == SelectSeq(calls, LAMBDA c : c.op = "list" /\ ~c.raised)

\* C21: a prefix sweep stops only after a list call has returned zero keys: when
\* _delete_all_with_prefix has returned, its last call is a list call that
\* returned no key, so the last list call of the sweep never returned a key.
C21_SweepEndsOnEmptyListing ==
    \A w \in DOMAIN workers :
        (workers[w].kind = "sweep" /\ workers[w].pc = "done") =>
            LET c == workers[w].calls
                l == ListCalls(c)
            IN  /\ Len(c) > 0
                /\ c[Len(c)].op = "list"
                /\ Len(l[Len(l)].keys) = 0

\* A sweep that has returned right after a delete call: its last list call
\* returned a key and no token.
C21_Witness ==
    \E w \in DOMAIN workers :
        /\ workers[w].kind = "sweep"
        /\ workers[w].pc = "done"
        /\ Len(workers[w].calls) >= 2
        /\ LET c == workers[w].calls
           IN  /\ c[Len(c)].op = "delete"
               /\ ~c[Len(c)].raised
               /\ c[Len(c) - 1].op = "list"
               /\ Len(c[Len(c) - 1].keys) > 0
               /\ workers[w].token = NoToken

\* The number of keys the store has deleted in the returned delete calls of a
\* log: the keys submitted less the keys reported as per-key errors.
RECURSIVE DeletedCount(_)
DeletedCount(calls) ==
    IF Len(calls) = 0 THEN 0
    ELSE DeletedCount(Tail(calls))
         + (Len(Head(calls).keys) - Cardinality(Head(calls).failed))

\* C22: a prefix sweep reports a running count without a denominator: the count
\* reported after each delete call is the number of keys the store has deleted
\* so far in this sweep, and the status text carries no total.
C22_SweepReportsDeletedCount ==
    \A w \in DOMAIN workers :
        workers[w].kind = "sweep" =>
            LET d == Returned(workers[w].calls)
            IN  /\ Len(workers[w].reports) = Len(d)
                /\ \A j \in 1..Len(d) :
                      workers[w].reports[j] = DeletedCount(SubSeq(d, 1, j))
                /\ workers[w].status_label.total = 0

\* A sweep that has reported a count larger than the number of keys deleted.
C22_Witness ==
    \E w \in DOMAIN workers :
        /\ workers[w].kind = "sweep"
        /\ Len(workers[w].reports) > 0
        /\ workers[w].reports[Len(workers[w].reports)]
              > DeletedCount(Returned(workers[w].calls))

\* The part of C22 that holds: the count is the number of keys submitted so
\* far, and it is the number deleted in a sweep without per-key failures.
C22_SweepReportsSubmittedCount ==
    \A w \in DOMAIN workers :
        workers[w].kind = "sweep" =>
            LET d == Returned(workers[w].calls)
            IN  /\ Len(workers[w].reports) = Len(d)
                /\ \A j \in 1..Len(d) :
                      /\ workers[w].reports[j] = Len(SubmittedKeys(SubSeq(d, 1, j)))
                      /\ AllSucceeded(workers[w]) =>
                            workers[w].reports[j] = DeletedCount(SubSeq(d, 1, j))
                /\ workers[w].status_label.total = 0

\* A click that sets or clears the flag of entry i of fetched page p, leaving
\* its key and the displayed page as they are.
MarkKey(p, i) ==
    /\ \E index \in 1..MAX_KEYS_PER_PAGE : ToggleCheckbox(index)
    /\ all_pages'[p][i][1] = all_pages[p][i][1]
    /\ all_pages'[p][i][2] # all_pages[p][i][2]
    /\ current_page' = current_page

C24_PagesAndIndex ==
    [][/\ dialog_open' =>
             /\ Len(all_pages') >= 1
             /\ current_page' \in 0..(Len(all_pages') - 1)
       /\ (dialog_open /\ dialog_open') =>
             /\ Len(all_pages') \in {Len(all_pages), Len(all_pages) + 1}
             /\ \A p \in 1..Len(all_pages) :
                   KeysOfPage(all_pages'[p]) = KeysOfPage(all_pages[p])]_vars

\* The dialog after a fetch, a step back, a toggle and a step forward within
\* the fetched pages: two pages, the second displayed, a key of the first
\* checked, no token left.
C24_Witness ==
    /\ dialog_open
    /\ Len(all_pages) = 2
    /\ current_page = 1
    /\ continuation_token = NoToken
    /\ lastCall.by = "load_next_page"
    /\ lastCall.op = "none"
    /\ \E i \in 1..Len(all_pages[1]) : all_pages[1][i][2]

\* Worker w is an upload thread (of files or of a directory) that has ended:
\* its finally clause has run.
UploadEnded(w) ==
    w \in DOMAIN workers /\ workers[w].kind \in Uploads /\ workers[w].pc \in {"done", "failed"}

\* C25: the three trigger buttons are disabled from the start of an upload or
\* directory-upload thread for as long as it runs; and however the thread ends
\* (every upload returned, an upload raised, or the directory held no file),
\* it does end, and then the buttons are enabled again and the progress value
\* is 0.
C25_ButtonsReenabled ==
    /\ [](\A w \in DOMAIN workers :
            (workers[w].kind \in Uploads /\ InFlight(workers[w])) =>
                \A b \in DOMAIN buttons : buttons[b] = "disabled")
    /\ \A w \in 1..MaxOps :
          []((w \in DOMAIN workers /\ workers[w].kind \in Uploads) =>
                <>(/\ UploadEnded(w)
                   /\ \A b \in DOMAIN buttons : buttons[b] = "normal"
                   /\ progress.value = 0))

\* An upload that raised at its second call and has ended: the buttons are
\* enabled and the progress value, 1 after the first call, is 0 again.
C25_Witness ==
    \E w \in DOMAIN workers :
        /\ workers[w].kind \in Uploads
        /\ workers[w].pc = "failed"
        /\ Len(workers[w].calls) = 2
        /\ workers[w].reports = <<1>>
        /\ \A b \in DOMAIN buttons : buttons[b] = "normal"
        /\ progress.value = 0

\* A directory upload of a directory without files that has ended.
C25_EmptyDirectoryEnded ==
    \E w \in DOMAIN workers :
        /\ workers[w].kind = "dirupload"
        /\ workers[w].pc = "done"
        /\ workers[w].tasks = <<>>
        /\ \A b \in DOMAIN buttons : buttons[b] = "normal"

\* C26: a selection-mode delete thread is started with the keys checked at the
\* step of delete_selected, each once; its list of keys never changes after
\* that, whatever is toggled or displayed in the dialog meanwhile; and the keys
\* of its calls, one call after the other, are the keys of that list from its
\* beginning, in its order.
C26_SubmitsSelectionAtStart ==
    [][\A w \in DOMAIN workers' :
          workers'[w].kind = "delete" =>
              LET keys      == workers'[w].tasks
                  submitted == SubmittedKeys(workers'[w].calls)
              IN  /\ IF w \in DOMAIN workers
                     THEN keys = workers[w].tasks
                     ELSE /\ Range(keys) = CheckedKeys(all_pages)
                          /\ Len(keys) = Cardinality(CheckedKeys(all_pages))
                  /\ Len(submitted) <= Len(keys)
                  /\ submitted = SubSeq(keys, 1, Len(submitted))
                  /\ workers'[w].pc = "done" => submitted = keys]_vars

\* A selection delete that has made its second call and ended while the dialog,
\* still open, shows another page and has no key checked any more.
C26_Witness ==
    /\ dialog_open
    /\ CheckedKeys(all_pages) = {}
    /\ \E w \in DOMAIN workers :
          /\ workers[w].kind = "delete"
          /\ workers[w].pc = "done"
          /\ Len(workers[w].calls) >= 2
          /\ lastCall.by \in {"load_next_page", "load_previous_page"}
====
